---------------------------- MODULE Spec2Model ----------------------------
(***************************************************************************)
(* The two postgres cache backends of salt-extras, _cache/pgbytea.py (the  *)
(* bytea column) and _cache/pgjsonb_encoded.py (the jsonb column with the  *)
(* base64 fallback), as one state machine over the salt_cache table.       *)
(*                                                                         *)
(* A python value is a record [t, v]: t is its type ("dict", "str",        *)
(* "bytes") and v a sequence of numbers (the code points of a str, the     *)
(* bytes of a byte string, the keys and values of a dict in turn).  A bank *)
(* or key string is a sequence of one-character strings.                   *)
(***************************************************************************)
EXTENDS Integers, Sequences, FiniteSets, TLC

VARIABLES variant, table, now, last, cache, conns

vars == <<variant, table, now, last, cache, conns>>

(***************************************************************************)
(* Bounds of the model and constants of the program.                       *)
(***************************************************************************)
\* the clock of the store counts epoch seconds from 1 up to MaxClock
MaxClock == 2

\* bank and psql_key are varchar(255)
VarcharLen == 255

\* uuid.UUID("00000000-0000-0000-0000-000000000000")
NilUUID == 0

\* the python None (the default of flush's key, the result of store)
None == <<"None">>

Variants == {"pgbytea", "pgjsonb_encoded"}

(***************************************************************************)
(* Helpers on sequences.                                                   *)
(***************************************************************************)
Range(s) == {s[i] : i \in 1..Len(s)}

Drop(s, n) == SubSeq(s, n + 1, Len(s))

(***************************************************************************)
(* Python values.                                                          *)
(***************************************************************************)
Dict(v) == [t |-> "dict", v |-> v]

Str(v) == [t |-> "str", v |-> v]

Bytes(v) == [t |-> "bytes", v |-> v]

\* the {} that fetch returns for a miss
EmptyDict == Dict(<<>>)

\* the result of a conversion that raised: no value, the exception's class
Raise(kind) == [ok |-> FALSE, exc |-> kind]

Return(value) == [ok |-> TRUE, val |-> value]

(***************************************************************************)
(* UTF-8, as bytes.decode("utf-8", "strict") and str.encode("utf-8").      *)
(***************************************************************************)
IsCont(b) == b >= 128 /\ b <= 191

\* the length of the well-formed UTF-8 sequence that starts s, 0 if none does
Utf8Width(s) ==
    LET b == s[1]
        n == Len(s)
    IN  IF b < 128 THEN 1
        ELSE IF b >= 194 /\ b <= 223
             THEN IF n >= 2 /\ IsCont(s[2]) THEN 2 ELSE 0
        ELSE IF b >= 224 /\ b <= 239
             THEN IF /\ n >= 3 /\ IsCont(s[2]) /\ IsCont(s[3])
                     /\ (b = 224 => s[2] >= 160)
                     /\ (b = 237 => s[2] <= 159)
                  THEN 3 ELSE 0
        ELSE IF b >= 240 /\ b <= 244
             THEN IF /\ n >= 4 /\ IsCont(s[2]) /\ IsCont(s[3]) /\ IsCont(s[4])
                     /\ (b = 240 => s[2] >= 144)
                     /\ (b = 244 => s[2] <= 143)
                  THEN 4 ELSE 0
        ELSE 0

Utf8Point(s, w) ==
    IF w = 1 THEN s[1]
    ELSE IF w = 2 THEN (s[1] - 192) * 64 + (s[2] - 128)
    ELSE IF w = 3 THEN (s[1] - 224) * 4096 + (s[2] - 128) * 64 + (s[3] - 128)
    ELSE (s[1] - 240) * 262144 + (s[2] - 128) * 4096
         + (s[3] - 128) * 64 + (s[4] - 128)

RECURSIVE Utf8Valid(_)
Utf8Valid(s) ==
    IF s = <<>> THEN TRUE
    ELSE LET w == Utf8Width(s)
         IN  w > 0 /\ Utf8Valid(Drop(s, w))

RECURSIVE Utf8Points(_)
Utf8Points(s) ==
    IF s = <<>> THEN <<>>
    ELSE LET w == Utf8Width(s)
         IN  <<Utf8Point(s, w)>> \o Utf8Points(Drop(s, w))

Utf8Decode(s) ==
    IF Utf8Valid(s) THEN Return(Utf8Points(s)) ELSE Raise("UnicodeDecodeError")

Utf8Char(c) ==
    IF c < 128 THEN <<c>>
    ELSE IF c < 2048 THEN <<192 + (c \div 64), 128 + (c % 64)>>
    ELSE IF c < 65536
         THEN <<224 + (c \div 4096), 128 + ((c \div 64) % 64), 128 + (c % 64)>>
    ELSE <<240 + (c \div 262144), 128 + ((c \div 4096) % 64),
           128 + ((c \div 64) % 64), 128 + (c % 64)>>

RECURSIVE Utf8Encode(_)
Utf8Encode(cs) ==
    IF cs = <<>> THEN <<>> ELSE Utf8Char(Head(cs)) \o Utf8Encode(Tail(cs))

\* salt.utils.stringutils.to_str on a byte string: its strict UTF-8 decoding
to_str(bs) == Utf8Decode(bs)

(***************************************************************************)
(* base64, as base64.b64encode and base64.b64decode (not validating).      *)
(***************************************************************************)
B64Pad == 61

\* the character of a 6-bit digit: A-Z a-z 0-9 + /
B64Char(d) ==
    IF d < 26 THEN 65 + d
    ELSE IF d < 52 THEN 97 + (d - 26)
    ELSE IF d < 62 THEN 48 + (d - 52)
    ELSE IF d = 62 THEN 43 ELSE 47

\* the 6-bit digit of a character, 64 for a character outside the alphabet
B64Digit(c) ==
    IF c >= 65 /\ c <= 90 THEN c - 65
    ELSE IF c >= 97 /\ c <= 122 THEN c - 97 + 26
    ELSE IF c >= 48 /\ c <= 57 THEN c - 48 + 52
    ELSE IF c = 43 THEN 62
    ELSE IF c = 47 THEN 63 ELSE 64

RECURSIVE b64encode(_)
b64encode(bs) ==
    IF bs = <<>> THEN <<>>
    ELSE IF Len(bs) = 1
         THEN <<B64Char(bs[1] \div 4), B64Char((bs[1] % 4) * 16), B64Pad, B64Pad>>
    ELSE IF Len(bs) = 2
         THEN <<B64Char(bs[1] \div 4),
                B64Char((bs[1] % 4) * 16 + (bs[2] \div 16)),
                B64Char((bs[2] % 16) * 4), B64Pad>>
    ELSE <<B64Char(bs[1] \div 4),
           B64Char((bs[1] % 4) * 16 + (bs[2] \div 16)),
           B64Char((bs[2] % 16) * 4 + (bs[3] \div 64)),
           B64Char(bs[3] % 64)>> \o b64encode(Drop(bs, 3))

\* binascii.a2b_base64 without strict mode: cs the characters left, quad the
\* position in the group of four, left the bits carried, pads the pad
\* characters seen in a row, out the bytes decoded
RECURSIVE A2bBase64(_, _, _, _, _)
A2bBase64(cs, quad, left, pads, out) ==
    IF cs = <<>>
    THEN IF quad = 0 THEN Return(out) ELSE Raise("binascii.Error")
    ELSE LET c == Head(cs)
             d == B64Digit(c)
         IN  IF c = B64Pad
             THEN IF quad >= 2 /\ quad + pads + 1 >= 4
                  THEN Return(out)
                  ELSE A2bBase64(Tail(cs), quad, left,
                                 IF quad >= 2 THEN pads + 1 ELSE pads, out)
             ELSE IF d = 64
             THEN A2bBase64(Tail(cs), quad, left, pads, out)
             ELSE IF quad = 0
             THEN A2bBase64(Tail(cs), 1, d, 0, out)
             ELSE IF quad = 1
             THEN A2bBase64(Tail(cs), 2, d % 16, 0,
                            Append(out, left * 4 + (d \div 16)))
             ELSE IF quad = 2
             THEN A2bBase64(Tail(cs), 3, d % 4, 0,
                            Append(out, left * 16 + (d \div 4)))
             ELSE A2bBase64(Tail(cs), 0, 0, 0, Append(out, left * 64 + d))

\* base64.b64decode of a python value: a str must be ASCII, anything that is
\* neither str nor bytes is a TypeError
b64decode(x) ==
    IF x.t = "dict" THEN Raise("TypeError")
    ELSE IF x.t = "str" /\ \E i \in 1..Len(x.v) : x.v[i] >= 128
    THEN Raise("ValueError")
    ELSE A2bBase64(x.v, 0, 0, 0, <<>>)

(***************************************************************************)
(* The codec of the bytea backend, salt.payload.dumps and loads (msgpack). *)
(* A dict maps strings to strings; its v lists its keys and values in      *)
(* turn, each as its length followed by its code points.                   *)
(***************************************************************************)
\* msgpack's str: fixstr up to 31 bytes, str 8 above
PackStr(cs) ==
    LET u == Utf8Encode(cs)
    IN  IF Len(u) <= 31 THEN <<160 + Len(u)>> \o u ELSE <<217, Len(u)>> \o u

RECURSIVE PackItems(_)
PackItems(v) ==
    IF v = <<>> THEN <<>>
    ELSE PackStr(SubSeq(v, 2, 1 + v[1])) \o PackItems(Drop(v, 1 + v[1]))

RECURSIVE CountItems(_)
CountItems(v) == IF v = <<>> THEN 0 ELSE 1 + CountItems(Drop(v, 1 + v[1]))

\* salt.payload.dumps: fixmap, fixstr / str 8, bin 8
dumps(x) ==
    IF x.t = "dict" THEN <<128 + (CountItems(x.v) \div 2)>> \o PackItems(x.v)
    ELSE IF x.t = "str" THEN PackStr(x.v)
    ELSE <<196, Len(x.v)>> \o x.v

\* the str that starts bs, unpacked raw: [ok, val: its bytes, rest: what
\* follows it]
UnpackStr(bs) ==
    LET hdr == IF bs # <<>> /\ bs[1] >= 160 /\ bs[1] <= 191 THEN 1
               ELSE IF Len(bs) >= 2 /\ bs[1] = 217 THEN 2 ELSE 0
        n == IF hdr = 1 THEN bs[1] - 160 ELSE IF hdr = 2 THEN bs[2] ELSE 0
    IN  IF hdr = 0 \/ Len(bs) < hdr + n THEN [ok |-> FALSE]
        ELSE [ok |-> TRUE, val |-> SubSeq(bs, hdr + 1, hdr + n),
              rest |-> Drop(bs, hdr + n)]

\* salt.transport.frame.decode_embedded_strs on the bytes of one item of a
\* dict: text where they decode, the bytes themselves where they do not
DecodeItem(body) == IF Utf8Valid(body) THEN Utf8Points(body) ELSE body

\* n strings in a row: [ok, val: the dict's v, rest]
RECURSIVE UnpackItems(_, _)
UnpackItems(bs, n) ==
    IF n = 0 THEN [ok |-> TRUE, val |-> <<>>, rest |-> bs]
    ELSE LET s == UnpackStr(bs)
         IN  IF ~s.ok THEN [ok |-> FALSE]
             ELSE LET r == UnpackItems(s.rest, n - 1)
                      i == DecodeItem(s.val)
                  IN  IF ~r.ok THEN [ok |-> FALSE]
                      ELSE [ok |-> TRUE,
                            val |-> <<Len(i)>> \o i \o r.val,
                            rest |-> r.rest]

\* salt.transport.frame.decode_embedded_strs on a byte string: src.decode(),
\* and src itself on UnicodeError
decode_embedded_strs(body) ==
    IF Utf8Valid(body) THEN Str(Utf8Points(body)) ELSE Bytes(body)

\* salt.payload.loads(msg) with its defaults encoding=None, raw=False:
\* msgpack unpacks str and bin alike as bytes (raw=True), then
\* decode_embedded_strs turns every byte string that decodes into text.
\* SaltDeserializationError for bytes that are no complete msgpack of a dict
\* of strings, a str or a bin.
loads(bs) ==
    IF bs = <<>> THEN Raise("SaltDeserializationError")
    ELSE IF bs[1] >= 128 /\ bs[1] <= 143
    THEN LET r == UnpackItems(Tail(bs), 2 * (bs[1] - 128))
         IN  IF r.ok /\ r.rest = <<>> THEN Return(Dict(r.val))
             ELSE Raise("SaltDeserializationError")
    ELSE IF bs[1] = 196
    THEN IF Len(bs) >= 2 /\ Len(bs) = 2 + bs[2]
         THEN Return(decode_embedded_strs(Drop(bs, 2)))
         ELSE Raise("SaltDeserializationError")
    ELSE LET s == UnpackStr(bs)
         IN  IF s.ok /\ s.rest = <<>> THEN Return(decode_embedded_strs(s.val))
             ELSE Raise("SaltDeserializationError")

(***************************************************************************)
(* The jsonb column of the JSON backend.  psycopg2.extras.Json dumps the   *)
(* value with json.dumps, to_jsonb(..::json) stores it and psycopg2 reads  *)
(* it back with json.loads.  A jsonb value is [jt, v]: a string or an      *)
(* object of strings.                                                      *)
(***************************************************************************)
\* json.dumps: a byte string is not JSON serializable
Json(x) ==
    IF x.t = "bytes" THEN Raise("TypeError")
    ELSE Return([jt |-> IF x.t = "str" THEN "string" ELSE "object", v |-> x.v])

\* to_jsonb of the json text: jsonb holds no \u0000
ToJsonb(j) ==
    IF 0 \in Range(j.v) THEN Raise("DataError") ELSE Return(j)

\* the python value psycopg2 returns for a jsonb value
FromJsonb(j) == IF j.jt = "string" THEN Str(j.v) ELSE Dict(j.v)

(***************************************************************************)
(* The salt_cache table: a set of rows [bank, key, data, encoded, id,      *)
(* changed].  data is a byte string (bytea) or a jsonb value, changed the  *)
(* epoch second of data_changed.  Only the bytea backend reads the id      *)
(* column: the rows of the jsonb backend carry NilUUID.                    *)
(***************************************************************************)
\* the value of the SQL literal '{s}' of the statement text: two quotes in a
\* row stand for one, a single quote closes the literal before its end
RECURSIVE SqlLiteral(_)
SqlLiteral(s) ==
    IF s = <<>> THEN Return(<<>>)
    ELSE IF Head(s) # "'"
    THEN LET r == SqlLiteral(Tail(s))
         IN  IF r.ok THEN Return(<<Head(s)>> \o r.val) ELSE r
    ELSE IF Len(s) >= 2 /\ s[2] = "'"
    THEN LET r == SqlLiteral(Drop(s, 2))
         IN  IF r.ok THEN Return(<<"'">> \o r.val) ELSE r
    ELSE Raise("ProgrammingError")

\* WHERE bank='{bank}' AND psql_key='{key}'
WhereBankKey(tab, bank, key) ==
    {r \in tab : r.bank = SqlLiteral(bank).val /\ r.key = SqlLiteral(key).val}

\* WHERE bank='{bank}'
WhereBank(tab, bank) == {r \in tab : r.bank = SqlLiteral(bank).val}

\* a trigger without its WHEN: it stamps every update
data_changed_always(old, new, t) == [new EXCEPT !.changed = t]

\* the trigger trigger_data_changed: BEFORE UPDATE, WHEN (OLD.data IS
\* DISTINCT FROM NEW.data), data_changed := current_timestamp
data_changed(old, new, t) ==
    IF old.data # new.data THEN [new EXCEPT !.changed = t] ELSE new

\* an update that writes the row anew, its id column with it
DoUpdateNewId(old, d, e, t) ==
    [data_changed(old, [old EXCEPT !.data = d, !.encoded = e], t)
        EXCEPT !.id = NilUUID]

\* an update of the JSON backend that sets data alone and leaves the
\* encoded column as it found it
DoUpdateDataOnly(old, d, e, t) ==
    data_changed(old, [old EXCEPT !.data = d], t)

\* ON CONFLICT (bank, psql_key) DO UPDATE SET data = EXCLUDED.data (and
\* encoded = EXCLUDED.encoded, which the bytea statement leaves as it is)
DoUpdate(old, d, e, t) ==
    data_changed(old, [old EXCEPT !.data = d, !.encoded = e], t)

\* a plain INSERT that the primary key does not stop: no ON CONFLICT
UpsertNoConflict(tab, b, k, d, e, u, t) ==
    tab \cup {[bank |-> b, key |-> k, data |-> d, encoded |-> e,
               id |-> u, changed |-> t]}

\* INSERT INTO {table} (bank, psql_key, data[, encoded]) VALUES (..)
\* ON CONFLICT (bank, psql_key) DO UPDATE ..: the table after the statement.
\* u is the uuid the id column's default draws for a new row, t the time.
Upsert(tab, b, k, d, e, u, t) ==
    IF \E r \in tab : r.bank = b /\ r.key = k
    THEN {IF r.bank = b /\ r.key = k THEN DoUpdate(r, d, e, t) ELSE r : r \in tab}
    ELSE tab \cup {[bank |-> b, key |-> k, data |-> d, encoded |-> e,
                    id |-> u, changed |-> t]}

\* the INSERT statement of store: what it raises and the table it leaves
\* d is the outcome of the data expression: Return(value) or Raise(class).
InsertStatement(tab, bank, key, d, e, u, t) ==
    LET b == SqlLiteral(bank)
        k == SqlLiteral(key)
    IN  IF ~b.ok \/ ~k.ok THEN [exc |-> "ProgrammingError", tab |-> tab]
        ELSE IF ~d.ok THEN [exc |-> d.exc, tab |-> tab]
        ELSE IF Len(b.val) > VarcharLen \/ Len(k.val) > VarcharLen
        THEN [exc |-> "DataError", tab |-> tab]
        ELSE [exc |-> "None", tab |-> Upsert(tab, b.val, k.val, d.val, e, u, t)]

\* a SELECT .. WHERE bank='{bank}' AND psql_key='{key}': what it raises and
\* the rows cur.fetchall() returns
SelectStatement(tab, bank, key) ==
    IF ~SqlLiteral(bank).ok \/ ~SqlLiteral(key).ok
    THEN [exc |-> "ProgrammingError", rows |-> {}]
    ELSE [exc |-> "None", rows |-> WhereBankKey(tab, bank, key)]

\* SELECT psql_key FROM {table} WHERE bank='{bank}'
SelectBankStatement(tab, bank) ==
    IF ~SqlLiteral(bank).ok THEN [exc |-> "ProgrammingError", rows |-> {}]
    ELSE [exc |-> "None", rows |-> WhereBank(tab, bank)]

\* a DELETE whose WHERE has lost the bank
DeleteStatementNoBank(tab, bank, key) ==
    LET withKey == key # None /\ key # <<>>
    IN  [exc |-> "None",
         tab |-> IF withKey
                 THEN {r \in tab : r.key # SqlLiteral(key).val}
                 ELSE {}]

\* DELETE FROM {table} WHERE bank='{bank}' [AND psql_key='{key}']; flush adds
\* the key's condition "if key:", that is for a key that python holds true
DeleteStatement(tab, bank, key) ==
    LET withKey == key # None /\ key # <<>>
    IN  IF ~SqlLiteral(bank).ok \/ (withKey /\ ~SqlLiteral(key).ok)
        THEN [exc |-> "ProgrammingError", tab |-> tab]
        ELSE [exc |-> "None",
              tab |-> IF withKey THEN tab \ WhereBankKey(tab, bank, key)
                      ELSE tab \ WhereBank(tab, bank)]

(***************************************************************************)
(* Exceptions.  env is what the store does to one call: conn the outcome   *)
(* of psycopg2.connect, stmt of the call's statement, end of the COMMIT or *)
(* ROLLBACK that ends the scope; "ok", or the class of the error raised.   *)
(***************************************************************************)
\* the subclasses of psycopg2.DatabaseError
DatabaseErrors ==
    {"DatabaseError", "DataError", "OperationalError", "IntegrityError",
     "InternalError", "ProgrammingError", "NotSupportedError"}

\* the subclasses of psycopg2.Error
PsycopgErrors == DatabaseErrors \cup {"Error", "InterfaceError"}

NoFault == [conn |-> "ok", stmt |-> "ok", end |-> "ok"]

\* cur.execute(query): the store's failure of the statement, if any, comes
\* before the statement's own outcome
Execute(env, statement) ==
    IF env.stmt # "ok" THEN [statement EXCEPT !.exc = env.stmt] ELSE statement

\* a scope that closes its connection at the end of the else branch only,
\* not in a finally
_get_serv_no_finally(commit, env, tab, body) ==
    IF env.conn # "ok"
    THEN [exc |-> "SaltMasterError", ret |-> None, tab |-> tab,
          ev |-> <<"connect">>, log |-> "None"]
    ELSE IF body.exc \in DatabaseErrors
    THEN [exc |-> IF env.end = "ok" THEN body.exc ELSE env.end,
          ret |-> None, tab |-> tab,
          ev |-> <<"connect", "cursor">> \o body.ev \o <<"ROLLBACK">>,
          log |-> body.exc]
    ELSE IF body.exc # "None"
    THEN [exc |-> body.exc, ret |-> None, tab |-> tab,
          ev |-> <<"connect", "cursor">> \o body.ev, log |-> body.log]
    ELSE IF env.end # "ok"
    THEN [exc |-> env.end, ret |-> None, tab |-> tab,
          ev |-> <<"connect", "cursor">> \o body.ev
                 \o <<IF commit THEN "COMMIT" ELSE "ROLLBACK">>,
          log |-> body.log]
    ELSE [exc |-> "None", ret |-> body.ret,
          tab |-> IF commit THEN body.tab ELSE tab,
          ev |-> <<"connect", "cursor">> \o body.ev
                 \o <<IF commit THEN "COMMIT" ELSE "ROLLBACK", "close">>,
          log |-> body.log]

\* a scope without its "except psycopg2.OperationalError" around connect
_get_serv_untranslated(commit, env, tab, body) ==
    IF env.conn # "ok"
    THEN [exc |-> env.conn, ret |-> None, tab |-> tab,
          ev |-> <<"connect">>, log |-> "None"]
    ELSE IF body.exc # "None"
    THEN [exc |-> body.exc, ret |-> None, tab |-> tab,
          ev |-> <<"connect", "cursor">> \o body.ev \o <<"close">>,
          log |-> body.log]
    ELSE [exc |-> "None", ret |-> body.ret, tab |-> body.tab,
          ev |-> <<"connect", "cursor">> \o body.ev \o <<"COMMIT", "close">>,
          log |-> body.log]

(***************************************************************************)
(* _get_serv: the connection and transaction scope.  body is what the      *)
(* with-block did: [exc, ret, tab, ev, log], the exception that left it    *)
(* ("None" if none did), the value it returned, the table as its statement *)
(* left it inside the transaction, the statements it issued and the class  *)
(* of the error it logged ("None" if it logged none).  The result is what  *)
(* the caller of the operation sees, [exc, ret, tab, ev, log]: tab is the  *)
(* committed table and ev the steps taken on the connection.               *)
(***************************************************************************)
_get_serv(commit, env, tab, body) ==
    IF env.conn # "ok"
    THEN \* psycopg2.OperationalError becomes SaltMasterError
         [exc |-> "SaltMasterError", ret |-> None, tab |-> tab,
          ev |-> <<"connect">>, log |-> "None"]
    ELSE IF body.exc \in DatabaseErrors
    THEN \* except psycopg2.DatabaseError: log, ROLLBACK, raise
         [exc |-> IF env.end = "ok" THEN body.exc ELSE env.end,
          ret |-> None, tab |-> tab,
          ev |-> <<"connect", "cursor">> \o body.ev \o <<"ROLLBACK", "close">>,
          log |-> body.exc]
    ELSE IF body.exc # "None"
    THEN \* any other exception passes through the finally
         [exc |-> body.exc, ret |-> None, tab |-> tab,
          ev |-> <<"connect", "cursor">> \o body.ev \o <<"close">>,
          log |-> body.log]
    ELSE IF env.end # "ok"
    THEN \* the COMMIT or ROLLBACK of the else branch raises
         [exc |-> env.end, ret |-> None, tab |-> tab,
          ev |-> <<"connect", "cursor">> \o body.ev
                 \o <<IF commit THEN "COMMIT" ELSE "ROLLBACK", "close">>,
          log |-> body.log]
    ELSE [exc |-> "None", ret |-> body.ret,
          tab |-> IF commit THEN body.tab ELSE tab,
          ev |-> <<"connect", "cursor">> \o body.ev
                 \o <<IF commit THEN "COMMIT" ELSE "ROLLBACK", "close">>,
          log |-> body.log]

(***************************************************************************)
(* The operations.  Each takes the committed table tab, its arguments and  *)
(* env, and gives what _get_serv gives: [exc, ret, tab, ev, log].          *)
(***************************************************************************)
\* data[0] of the list cur.fetchall() returned
FirstRow(rows) == CHOOSE r \in rows : TRUE

\* the with-block is left by an exception after its statement
Raised(tab, kind) ==
    [exc |-> kind, ret |-> None, tab |-> tab, ev |-> <<"execute">>,
     log |-> "None"]

\* the with-block returns ret after its statement, which left the table tab
Returned(tab, ret, logged) ==
    [exc |-> "None", ret |-> ret, tab |-> tab, ev |-> <<"execute">>,
     log |-> logged]

\* pgbytea.store
store_pgbytea(tab, bank, key, data, env, u, t) ==
    LET payload == dumps(data)
        st == Execute(env, InsertStatement(tab, bank, key, Return(payload),
                                           FALSE, u, t))
        body == IF st.exc \in PsycopgErrors \cup {"TypeError"}
                THEN \* logged and swallowed; the transaction is aborted
                     Returned(tab, None, st.exc)
                ELSE IF st.exc # "None" THEN Raised(tab, st.exc)
                ELSE Returned(st.tab, None, "None")
    IN  _get_serv(TRUE, env, tab, body)

\* pgjsonb_encoded.store: the text and the encoded flag of a byte string
Encode(data) ==
    IF data.t # "bytes" THEN [data |-> data, encoded |-> FALSE]
    ELSE LET s == to_str(data.v)
         IN  IF s.ok THEN [data |-> Str(s.val), encoded |-> FALSE]
             ELSE [data |-> Str(b64encode(data.v)), encoded |-> TRUE]

\* pgjsonb_encoded.store
store_pgjsonb_encoded(tab, bank, key, data, env, u, t) ==
    LET enc == Encode(data)
        j == Json(enc.data)
        st == Execute(env, InsertStatement(tab, bank, key,
                                           IF j.ok THEN ToJsonb(j.val) ELSE j,
                                           enc.encoded, u, t))
        body == IF ~j.ok
                THEN \* formatting the query raises, before the try
                     [exc |-> j.exc, ret |-> None, tab |-> tab, ev |-> <<>>,
                      log |-> "None"]
                ELSE IF st.exc \in PsycopgErrors
                THEN Returned(tab, None, st.exc)
                ELSE IF st.exc # "None" THEN Raised(tab, st.exc)
                ELSE Returned(st.tab, None, "None")
    IN  _get_serv(TRUE, env, tab, body)

\* store, of the backend in use
do_store(bytea, tab, bank, key, data, env, u, t) ==
    IF bytea THEN store_pgbytea(tab, bank, key, data, env, u, t)
    ELSE store_pgjsonb_encoded(tab, bank, key, data, env, u, t)

\* pgbytea.fetch: return_data = salt.payload.loads(data[0][0])
Decode_pgbytea(row) == loads(row.data)

\* pgjsonb_encoded.fetch:
\* data[0][0] if not data[0][1] else base64.b64decode(data[0][0])
Decode_pgjsonb_encoded(row) ==
    IF ~row.encoded THEN Return(FromJsonb(row.data))
    ELSE LET b == b64decode(FromJsonb(row.data))
         IN  IF b.ok THEN Return(Bytes(b.val)) ELSE b

\* fetch, of either backend (the decoding is the backend's)
do_fetch(bytea, tab, bank, key, env) ==
    LET st == Execute(env, SelectStatement(tab, bank, key))
        d == IF bytea THEN Decode_pgbytea(FirstRow(st.rows))
             ELSE Decode_pgjsonb_encoded(FirstRow(st.rows))
        body == IF st.exc # "None" THEN Raised(tab, st.exc)
                ELSE IF st.rows = {}
                THEN \* data[0] raises IndexError: logged, return {}
                     Returned(tab, EmptyDict, "IndexError")
                ELSE IF ~d.ok THEN Raised(tab, d.exc)
                ELSE Returned(tab, d.val, "None")
    IN  _get_serv(TRUE, env, tab, body)

\* flush without its "except psycopg2.Error"
do_flush_no_except(tab, bank, key, env) ==
    LET st == Execute(env, DeleteStatement(tab, bank, key))
        body == IF st.exc # "None" THEN Raised(tab, st.exc)
                ELSE Returned(st.tab, TRUE, "None")
    IN  _get_serv(TRUE, env, tab, body)

\* flush, the same in both backends
do_flush(tab, bank, key, env) ==
    LET st == Execute(env, DeleteStatement(tab, bank, key))
        body == IF st.exc \in PsycopgErrors
                THEN \* logged; return False
                     Returned(tab, FALSE, st.exc)
                ELSE IF st.exc # "None" THEN Raised(tab, st.exc)
                ELSE Returned(st.tab, TRUE, "None")
    IN  _get_serv(TRUE, env, tab, body)

\* list_ with a SELECT that has lost its WHERE
do_list_every_bank(tab, bank, env) ==
    LET body == Returned(tab, {r.key : r \in tab}, "None")
    IN  _get_serv(TRUE, env, tab, body)

\* list_: the keys of the bank's rows (a tuple, in no order: a set here)
do_list(tab, bank, env) ==
    LET st == Execute(env, SelectBankStatement(tab, bank))
        body == IF st.exc # "None" THEN Raised(tab, st.exc)
                ELSE Returned(tab, {r.key : r \in st.rows}, "None")
    IN  _get_serv(TRUE, env, tab, body)

\* contains under a scope opened with the default, commit=False
do_contains_no_commit(tab, bank, key, env) ==
    LET st == Execute(env, SelectStatement(tab, bank, key))
        body == IF st.exc # "None" THEN Raised(tab, st.exc)
                ELSE Returned(tab, Cardinality(st.rows) = 1, "None")
    IN  _get_serv(FALSE, env, tab, body)

\* contains: SELECT COUNT(data) ..; return data[0][0] == 1
do_contains(tab, bank, key, env) ==
    LET st == Execute(env, SelectStatement(tab, bank, key))
        body == IF st.exc # "None" THEN Raised(tab, st.exc)
                ELSE Returned(tab, Cardinality(st.rows) = 1, "None")
    IN  _get_serv(TRUE, env, tab, body)

\* updated: SELECT extract(epoch FROM data_changed)::int ..
do_updated(tab, bank, key, env) ==
    LET st == Execute(env, SelectStatement(tab, bank, key))
        body == IF st.exc # "None" THEN Raised(tab, st.exc)
                ELSE IF st.rows = {}
                THEN \* IndexError: logged, return 0
                     Returned(tab, 0, "IndexError")
                ELSE Returned(tab, FirstRow(st.rows).changed, "None")
    IN  _get_serv(TRUE, env, tab, body)

\* id_ without its "except IndexError"
do_id_no_except(tab, bank, key, env) ==
    LET st == Execute(env, SelectStatement(tab, bank, key))
        body == IF st.exc # "None" THEN Raised(tab, st.exc)
                ELSE IF st.rows = {} THEN Raised(tab, "IndexError")
                ELSE Returned(tab, FirstRow(st.rows).id, "None")
    IN  _get_serv(TRUE, env, tab, body)

\* pgbytea.id_: SELECT id ..
do_id(tab, bank, key, env) ==
    LET st == Execute(env, SelectStatement(tab, bank, key))
        body == IF st.exc # "None" THEN Raised(tab, st.exc)
                ELSE IF st.rows = {}
                THEN \* IndexError: logged, return the nil uuid
                     Returned(tab, NilUUID, "IndexError")
                ELSE Returned(tab, FirstRow(st.rows).id, "None")
    IN  _get_serv(TRUE, env, tab, body)

(***************************************************************************)
(* _get_options: the connection options, resolved from __opts__.  An       *)
(* option mapping is a function from option keys to values; "cache.V.N" is *)
(* the key <<"cache", V, N>>.  A string value is a tuple of strings, a     *)
(* port value a python int or str.                                         *)
(***************************************************************************)
_DEFAULT_DATABASE_NAME == <<"salt_cache">>

_DEFAULT_TABLE_NAME == <<"salt_cache">>

DefaultHost == <<"127.0.0.1">>

DefaultPort == 5432

\* a python int
PyInt(n) == [t |-> "int", n |-> n]

\* the key "cache.{v}.{n}"
Option(v, n) == <<"cache", v, n>>

OptionNames ==
    {"host", "user", "password", "passwd", "dbname", "database",
     "table_name", "port"}

\* the number the decimal digits cs write, read from the left after n
RECURSIVE Decimal(_, _)
Decimal(cs, n) ==
    IF cs = <<>> THEN n ELSE Decimal(Tail(cs), 10 * n + (Head(cs) - 48))

\* int(x): the int itself, the number a str of decimal digits writes,
\* ValueError for any other str
int(x) ==
    IF x.t = "int" THEN Return(x.n)
    ELSE IF x.v # <<>> /\ \A i \in 1..Len(x.v) : x.v[i] \in 48..57
    THEN Return(Decimal(x.v, 0))
    ELSE Raise("ValueError")

\* opts.pop(key, default), its value
pop(opts, key, default) ==
    IF key \in DOMAIN opts THEN opts[key] ELSE default

\* opts after the pops of _get_options
Popped(v, opts) ==
    [k \in DOMAIN opts \ {Option(v, n) : n \in OptionNames} |-> opts[k]]

\* _get_options that pops from __opts__ itself, not from a deep copy
_get_options_in_place(v, opts) ==
    LET port == int(pop(opts, Option(v, "port"), PyInt(DefaultPort)))
    IN  [exc |-> IF port.ok THEN "None" ELSE port.exc,
         opts |-> Popped(v, opts),
         ret |-> IF ~port.ok THEN None
                 ELSE [host |-> pop(opts, Option(v, "host"), DefaultHost),
                       user |-> pop(opts, Option(v, "user"), None),
                       password |->
                           pop(opts, Option(v, "password"),
                               pop(opts, Option(v, "passwd"), None)),
                       dbname |->
                           pop(opts, Option(v, "dbname"),
                               pop(opts, Option(v, "database"),
                                   _DEFAULT_DATABASE_NAME)),
                       table |-> pop(opts, Option(v, "table_name"),
                                     _DEFAULT_TABLE_NAME),
                       port |-> port.val]]

\* _get_options of backend v with __opts__ = opts: [exc, ret, opts], the
\* exception raised, the options returned and __opts__ after the call.  The
\* pops are made on a deep copy.
_get_options(v, opts) ==
    LET port == int(pop(opts, Option(v, "port"), PyInt(DefaultPort)))
    IN  [exc |-> IF port.ok THEN "None" ELSE port.exc,
         opts |-> opts,
         ret |-> IF ~port.ok THEN None
                 ELSE [host |-> pop(opts, Option(v, "host"), DefaultHost),
                       user |-> pop(opts, Option(v, "user"), None),
                       password |->
                           pop(opts, Option(v, "password"),
                               pop(opts, Option(v, "passwd"), None)),
                       dbname |->
                           pop(opts, Option(v, "dbname"),
                               pop(opts, Option(v, "database"),
                                   _DEFAULT_DATABASE_NAME)),
                       table |-> pop(opts, Option(v, "table_name"),
                                     _DEFAULT_TABLE_NAME),
                       port |-> port.val]]

(***************************************************************************)
(* The state machine.  variant is the backend the master is configured     *)
(* with, table the committed rows, now the store's clock and last the most *)
(* recent call: its operation, arguments and env, what its caller saw, and *)
(* before, the number of rows the call's bank and key (its bank, for a     *)
(* call without a key) had when it began.  cache is a history variable:    *)
(* the <<bank, key, value>> that the callers have stored without an error  *)
(* and not flushed since.                                                  *)
(***************************************************************************)
Banks == {<<"m">>, <<"n">>}

Keys == {<<>>, <<"k">>}

\* {"i": "5"}
OneValue == {Dict(<<1, 105, 1, 53>>)}

\* {"i": "5"} and b"\xff"
SomeValues == OneValue \cup {Bytes(<<255>>)}

\* and "a", b"a", "\xe9", its UTF-8 b"\xc3\xa9", "/w==", the base64 of
\* b"\xff", and b"\x00"
AllValues ==
    SomeValues \cup {Str(<<97>>), Bytes(<<97>>), Str(<<233>>),
                     Bytes(<<195, 169>>), Str(<<47, 119, 61, 61>>),
                     Bytes(<<0>>)}

\* what the store may do to a call: refuse the connection or, the
\* connection made, fail the statement, fail the COMMIT or ROLLBACK that ends
\* the scope
Faults ==
    {f \in [conn : {"ok", "OperationalError"},
            stmt : {"ok", "IntegrityError", "DataError", "Error",
                    "OperationalError", "InterfaceError", "TypeError"},
            end : {"ok", "OperationalError"}] :
        f.conn # "ok" => f.stmt = "ok" /\ f.end = "ok"}

\* payloads that no store of these backends writes: 0xc1, the byte msgpack
\* never uses, and the text "abc" flagged as base64
Undecodable ==
    IF variant = "pgbytea" THEN {[data |-> <<193>>, encoded |-> FALSE]}
    ELSE {[data |-> [jt |-> "string", v |-> <<97, 98, 99>>],
           encoded |-> TRUE]}

\* uuids, as many as there can be rows
UUIDs == 1..Cardinality(Banks \X Keys)

bytea == variant = "pgbytea"

\* gen_random_uuid(), the default of the id column: any uuid no row holds,
\* drawn when the statement inserts a row
NewIds(bank, key) ==
    IF /\ bytea
       /\ SqlLiteral(bank).ok /\ SqlLiteral(key).ok
       /\ WhereBankKey(table, bank, key) = {}
    THEN UUIDs \ {r.id : r \in table}
    ELSE {NilUUID}

\* the rows of the bank and key, of the bank when the call names no key
Addressed(tab, bank, key) ==
    {r \in tab : r.bank = bank /\ (key # None => r.key = key)}

\* the data and encoded columns that hold the value x
Payload(x) ==
    IF bytea THEN [data |-> dumps(x), encoded |-> FALSE]
    ELSE [data |-> ToJsonb(Json(Encode(x).data).val).val,
          encoded |-> Encode(x).encoded]

Call(op, bank, key, arg, env, r) ==
    [op |-> op, bank |-> bank, key |-> key, arg |-> arg, env |-> env,
     exc |-> r.exc, ret |-> r.ret, ev |-> r.ev, log |-> r.log,
     before |-> Cardinality(Addressed(table, bank, key))]

\* a flush of the bank touches the key it names, and every key of the bank
\* when it names none (None, or the empty string that flush takes for none)
Touches(flushed, key) == flushed \in {None, <<>>, key}

\* the callers that may have a connection open at the same time
Callers == {1, 2}

\* a caller that is in no call
Idle ==
    [pc |-> "idle", bank |-> None, key |-> None, data |-> None,
     insert |-> FALSE, id |-> NilUUID]

\* no call yet
NoCall ==
    [op |-> "init", bank |-> None, key |-> None, arg |-> None,
     env |-> NoFault, exc |-> "None", ret |-> None, ev |-> <<>>,
     log |-> "None", before |-> 0]

Init ==
    /\ variant \in Variants
    /\ table = {}
    /\ now = 1
    /\ cache = {}
    /\ last = NoCall
    /\ conns = [c \in Callers |-> Idle]

store(bank, key, data, env, u) ==
    LET r == do_store(bytea, table, bank, key, data, env, u, now)
    IN  /\ table' = r.tab
        /\ last' = Call("store", bank, key, data, env, r)
        /\ cache' = IF r.exc = "None" /\ r.log = "None"
                    THEN {c \in cache : c[1] # bank \/ c[2] # key}
                         \cup {<<bank, key, data>>}
                    ELSE {c \in cache : c[1] # bank \/ c[2] # key}
        /\ UNCHANGED <<variant, now, conns>>

fetch(bank, key, env) ==
    LET r == do_fetch(bytea, table, bank, key, env)
    IN  /\ table' = r.tab
        /\ last' = Call("fetch", bank, key, None, env, r)
        /\ UNCHANGED <<variant, now, cache, conns>>

flush(bank, key, env) ==
    LET r == do_flush(table, bank, key, env)
    IN  /\ table' = r.tab
        /\ last' = Call("flush", bank, key, None, env, r)
        /\ cache' = {c \in cache : c[1] # bank \/ ~Touches(key, c[2])}
        /\ UNCHANGED <<variant, now, conns>>

list_(bank, env) ==
    LET r == do_list(table, bank, env)
    IN  /\ table' = r.tab
        /\ last' = Call("list", bank, None, None, env, r)
        /\ UNCHANGED <<variant, now, cache, conns>>

contains(bank, key, env) ==
    LET r == do_contains(table, bank, key, env)
    IN  /\ table' = r.tab
        /\ last' = Call("contains", bank, key, None, env, r)
        /\ UNCHANGED <<variant, now, cache, conns>>

updated(bank, key, env) ==
    LET r == do_updated(table, bank, key, env)
    IN  /\ table' = r.tab
        /\ last' = Call("updated", bank, key, None, env, r)
        /\ UNCHANGED <<variant, now, cache, conns>>

\* only pgbytea has id_
id_(bank, key, env) ==
    LET r == do_id(table, bank, key, env)
    IN  /\ bytea
        /\ table' = r.tab
        /\ last' = Call("id", bank, key, None, env, r)
        /\ UNCHANGED <<variant, now, cache, conns>>

\* the calls of a caller that draws its arguments from B, K and V, against a
\* store that behaves as one of E
Calls(B, K, V, E) ==
    \E bank \in B, env \in E :
        \/ \E key \in K, data \in V :
               \E u \in NewIds(bank, key) : store(bank, key, data, env, u)
        \/ \E key \in K : fetch(bank, key, env)
        \/ \E key \in K \cup {None} : flush(bank, key, env)
        \/ list_(bank, env)
        \/ \E key \in K : contains(bank, key, env)
        \/ \E key \in K : updated(bank, key, env)
        \/ \E key \in K : id_(bank, key, env)

\* the store's clock advances
Tick ==
    /\ now < MaxClock
    /\ now' = now + 1
    /\ last' = [last EXCEPT !.op = "tick"]
    /\ UNCHANGED <<variant, table, cache, conns>>

\* another client of the database writes a payload of its own into the row
\* of a bank and key
corrupt(bank, key, p, u) ==
    /\ table' = Upsert(table, bank, key, p.data, p.encoded, u, now)
    /\ last' = [last EXCEPT !.op = "corrupt", !.bank = bank, !.key = key]
    /\ cache' = {c \in cache : c[1] # bank \/ c[2] # key}
    /\ UNCHANGED <<variant, now, conns>>

(***************************************************************************)
(* store, step by step, for callers that run at the same time, each on its *)
(* own connection and transaction.  conns[c] is the call caller c is in:    *)
(* pc is "idle", "cursor" (connected, statement not yet sent) or           *)
(* "executed" (statement done, transaction open); insert tells whether the *)
(* statement inserted its row or updated the one it found, id is the uuid  *)
(* of an inserted row.  The store runs at READ COMMITTED: a statement sees *)
(* the committed table, and an INSERT .. ON CONFLICT waits for the open    *)
(* transaction that has written the row of its bank and key.               *)
(***************************************************************************)
\* a plain INSERT or UPDATE after a SELECT: nothing to wait for
RowLockedNever(cs, c, bank, key) == FALSE

\* another open transaction has written the row of the bank and key
RowLocked(cs, c, bank, key) ==
    \E o \in DOMAIN cs \ {c} :
        cs[o].pc = "executed" /\ cs[o].bank = bank /\ cs[o].key = key

\* gen_random_uuid() for the row the statement of c inserts
NewIdsOpen(bank, key) ==
    IF bytea /\ WhereBankKey(table, bank, key) = {}
    THEN UUIDs \ ({r.id : r \in table} \cup {conns[o].id : o \in Callers})
    ELSE {NilUUID}

\* psycopg2.connect and conn.cursor() of _get_serv
store_connect(c, bank, key, data) ==
    /\ conns[c].pc = "idle"
    /\ conns' = [conns EXCEPT ![c] = [Idle EXCEPT !.pc = "cursor",
                                                  !.bank = bank, !.key = key,
                                                  !.data = data]]
    /\ last' = [NoCall EXCEPT !.op = "connect"]
    /\ UNCHANGED <<variant, table, now, cache>>

\* cur.execute(query) of store: INSERT .. ON CONFLICT .. DO UPDATE
store_execute(c, u) ==
    /\ conns[c].pc = "cursor"
    /\ ~RowLocked(conns, c, conns[c].bank, conns[c].key)
    /\ conns' = [conns EXCEPT
                    ![c].pc = "executed",
                    ![c].insert =
                        WhereBankKey(table, conns[c].bank, conns[c].key) = {},
                    ![c].id = u]
    /\ last' = [NoCall EXCEPT !.op = "execute"]
    /\ UNCHANGED <<variant, table, now, cache>>

\* COMMIT and conn.close() of _get_serv: the transaction's write is
\* committed and store returns
store_commit(c) ==
    LET s == conns[c]
        p == Payload(s.data)
        r == [exc |-> "None", ret |-> None, log |-> "None",
              ev |-> <<"connect", "cursor", "execute", "COMMIT", "close">>]
    IN  /\ s.pc = "executed"
        /\ table' =
               IF s.insert
               THEN table \cup {[bank |-> s.bank, key |-> s.key,
                                 data |-> p.data, encoded |-> p.encoded,
                                 id |-> s.id, changed |-> now]}
               ELSE {IF x.bank = s.bank /\ x.key = s.key
                     THEN DoUpdate(x, p.data, p.encoded, now) ELSE x :
                     x \in table}
        /\ conns' = [conns EXCEPT ![c] = Idle]
        /\ last' = Call("store", s.bank, s.key, s.data, NoFault, r)
        /\ cache' = {x \in cache : x[1] # s.bank \/ x[2] # s.key}
                    \cup {<<s.bank, s.key, s.data>>}
        /\ UNCHANGED <<variant, now>>

\* the values an option may have: a string of its own, and for the port
\* the int 5433 or the str "6543"
OptionValues(n) ==
    IF n = "port" THEN {PyInt(5433), Str(<<54, 53, 52, 51>>)}
    ELSE {<<"the", n>>}

\* the option mappings of the master: any of the options of its backend,
\* each with one of its values
OptionMappings ==
    UNION {{[k \in {Option(variant, n) : n \in D} |->
                IF k[3] = "port" THEN p ELSE <<"the", k[3]>>] :
             p \in OptionValues("port")} :
           D \in SUBSET OptionNames}

\* a call of _get_options, by a master whose __opts__ is opts
get_options(opts) ==
    LET r == _get_options(variant, opts)
    IN  /\ last' = [NoCall EXCEPT !.op = "_get_options", !.arg = opts,
                                  !.exc = r.exc,
                                  !.ret = [options |-> r.ret, opts |-> r.opts]]
        /\ UNCHANGED <<variant, table, now, cache, conns>>

\* what a with-block under _get_serv may do after its one statement: return
\* with the row of bank "m" and key "k" written or deleted, return with an
\* error logged, or raise
Bodies ==
    {Returned(Upsert(table, <<"m">>, <<"k">>, d, FALSE, NilUUID, now),
              None, "None") : d \in {<<196, 1, 97>>, <<196, 1, 98>>}}
    \cup {Returned(table \ WhereBank(table, <<"m">>), None, "None"),
          Returned(table, None, "IntegrityError")}
    \cup {Raised(table, e) :
             e \in {"DataError", "OperationalError", "InterfaceError",
                    "TypeError", "IndexError"}}

\* one use of _get_serv: with _get_serv(commit=commit) as cursor: body
scope(commit, env, body) ==
    LET r == _get_serv(commit, env, table, body)
    IN  /\ table' = r.tab
        /\ last' = [NoCall EXCEPT !.op = "_get_serv",
                                  !.arg = [commit |-> commit, body |-> body],
                                  !.env = env, !.exc = r.exc, !.ret = r.ret,
                                  !.ev = r.ev, !.log = r.log]
        /\ UNCHANGED <<variant, now, cache, conns>>

\* two banks, two keys, one value, a store that does not fail
Next == Calls(Banks, Keys, OneValue, {NoFault})

Spec == Init /\ [][Next]_vars

\* one bank, two keys, values of every kind
NextValues == Calls({<<"m">>}, Keys, AllValues, {NoFault})

SpecValues == Init /\ [][NextValues]_vars

\* one bank, two keys, two values, and time passes
NextClock == Tick \/ Calls({<<"m">>}, Keys, SomeValues, {NoFault})

SpecClock == Init /\ [][NextClock]_vars

\* one bank, one key, two values, a store that fails in every way
NextFault == Calls({<<"m">>}, {<<"k">>}, SomeValues, Faults)

SpecFault == Init /\ [][NextFault]_vars

\* one bank, two keys, two values, and rows that other clients damage
NextCorrupt ==
    \/ Calls({<<"m">>}, Keys, SomeValues, {NoFault})
    \/ \E key \in Keys, p \in Undecodable :
           \E u \in NewIds(<<"m">>, key) : corrupt(<<"m">>, key, p, u)

SpecCorrupt == Init /\ [][NextCorrupt]_vars

\* two callers that store two values under one bank and two keys, their
\* connections open at the same time
NextConcurrent ==
    \E c \in Callers :
        \/ \E key \in Keys, data \in SomeValues :
               store_connect(c, <<"m">>, key, data)
        \/ \E u \in NewIdsOpen(conns[c].bank, conns[c].key) :
               store_execute(c, u)
        \/ store_commit(c)

SpecConcurrent == Init /\ [][NextConcurrent]_vars

\* one bank, two values, and the keys "'" and "''"
QuoteKeys == {<<"'">>, <<"'", "'">>}

NextQuote == Calls({<<"m">>}, QuoteKeys, SomeValues, {NoFault})

SpecQuote == Init /\ [][NextQuote]_vars

\* scopes opened with commit and without, around any body, against a store
\* that fails in every way
NextScope ==
    \E commit \in BOOLEAN, env \in Faults, body \in Bodies :
        scope(commit, env, body)

SpecScope == Init /\ [][NextScope]_vars

\* b"\xff" and the text "/w==", its base64
FlagValues == {Bytes(<<255>>), Str(<<47, 119, 61, 61>>)}

\* one bank, two keys, a byte string and the text of its base64, and time
\* passes
NextFlag == Tick \/ Calls({<<"m">>}, Keys, FlagValues, {NoFault})

SpecFlag == Init /\ [][NextFlag]_vars

\* a master with any option mapping resolves its options
NextOptions == \E opts \in OptionMappings : get_options(opts)

SpecOptions == Init /\ [][NextOptions]_vars

(***************************************************************************)
(* What the claims speak of.                                               *)
(***************************************************************************)
Reads == {"fetch", "list", "contains", "updated", "id"}

\* the last call came back without an exception and without a logged error
Clean == last.exc = "None" /\ last.log = "None"

\* the rows of the last call's bank and key
Target == {r \in table : r.bank = last.bank /\ r.key = last.key}

\* fetch decodes the payload of the row r
Decodes(r) ==
    IF bytea THEN Decode_pgbytea(r).ok ELSE Decode_pgjsonb_encoded(r).ok

C2_JsonRoundTrip ==
    ~bytea /\ last.op = "fetch" =>
        \A c \in cache :
            c[1] = last.bank /\ c[2] = last.key =>
                last.exc = "None" /\ last.ret = c[3]

\* C3: there is never more than one row of a bank and key, and after a store
\* that raised and logged no error the bank and key have exactly one row,
\* which holds the payload of the value stored last
C3_Upsert ==
    /\ \A r1, r2 \in table :
           r1.bank = r2.bank /\ r1.key = r2.key => r1 = r2
    /\ last.op = "store" /\ Clean =>
           /\ Cardinality(Target) = 1
           /\ \A r \in Target :
                  /\ r.data = Payload(last.arg).data
                  /\ r.encoded = Payload(last.arg).encoded

\* a store has overwritten a row while the table holds another row
C3_Witness ==
    /\ last.op = "store" /\ Clean /\ last.before = 1
    /\ Cardinality(table) >= 2

\* C4: a flush of bank a, with or without a key, leaves the rows of every
\* other bank as they were: none removed, none added, none changed
C4_BankIsolation ==
    [][last'.op = "flush" =>
           {r \in table' : r.bank # last'.bank}
               = {r \in table : r.bank # last'.bank}]_vars

\* a flush has removed rows of its bank and rows of another bank remain
C4_Witness ==
    /\ last.op = "flush" /\ Clean /\ last.before > 0
    /\ \E r \in table : r.bank # last.bank

\* C5: a flush without a key removes every row of the bank, a flush with a
\* key (any string, the empty one too) removes the row of that bank and key
\* and no other row
C5_FlushExact ==
    [][last'.op = "flush" /\ last'.exc = "None" /\ last'.log = "None" =>
           table' = table \ Addressed(table, last'.bank, last'.key)]_vars

\* C6: fetch, updated, contains and id on a bank and key without a row return
\* {}, 0, False and the nil uuid, raise nothing and leave the table as it is
C6_MissDefaults ==
    [][last'.op \in {"fetch", "updated", "contains", "id"}
       /\ last'.before = 0 =>
           /\ last'.exc = "None"
           /\ last'.op = "fetch" => last'.ret = EmptyDict
           /\ last'.op = "updated" => last'.ret = 0
           /\ last'.op = "contains" => last'.ret = FALSE
           /\ last'.op = "id" => last'.ret = NilUUID
           /\ table' = table]_vars

\* id has missed in a table that holds other rows
C6_Witness ==
    /\ last.op = "id" /\ last.before = 0 /\ last.ret = NilUUID
    /\ table # {}

\* C7: a store whose payload is the one the row of its bank and key holds
\* leaves what updated returns for that bank and key as it was, whatever the
\* clock has come to
C7_NoOpTimestamp ==
    [][/\ last'.op = "store"
       /\ \E r \in Addressed(table, last'.bank, last'.key) :
              r.data = Payload(last'.arg).data
       => do_updated(table', last'.bank, last'.key, NoFault).ret
              = do_updated(table, last'.bank, last'.key, NoFault).ret]_vars

\* a store has found its own payload in a row that was written before the
\* clock last advanced
C7_Witness ==
    /\ last.op = "store" /\ Clean /\ last.before = 1
    /\ \A r \in Target :
           r.data = Payload(last.arg).data /\ r.changed < now

\* C8: a call that is refused the connection raises SaltMasterError after
\* that one attempt, issues no statement and leaves the table as it was
C8_ConnectionFailure ==
    [][last'.op \in Reads \cup {"store", "flush"} /\ last'.env.conn # "ok" =>
           /\ last'.exc = "SaltMasterError"
           /\ last'.ev = <<"connect">>
           /\ table' = table]_vars

\* a store has been refused the connection while the table holds a row
C8_Witness ==
    /\ last.op = "store" /\ last.env.conn # "ok"
    /\ last.exc = "SaltMasterError"
    /\ table # {}

\* C9: a call that got its connection raises nothing, whatever error of
\* psycopg2 its statement met (the COMMIT that ends its scope not failing)
C9_NothingRaised ==
    /\ last.op \in Reads \cup {"store", "flush"}
    /\ last.env.conn = "ok" /\ last.env.end = "ok"
    /\ last.env.stmt \in PsycopgErrors \cup {"ok"}
    => last.exc = "None"

\* C10: a fetch of a bank and key whose row holds a payload that does not
\* decode raises nothing and returns {}
C10_UndecodableFetch ==
    last.op = "fetch" /\ (\E r \in Target : ~Decodes(r)) =>
        last.exc = "None" /\ last.ret = EmptyDict

\* C11: a store or flush whose statement meets an error of psycopg2 (the
\* connection made and the scope's COMMIT not failing) raises nothing, store
\* returning None and flush False, leaves the table as it was and closes its
\* connection last; and a flush that raises nothing returns True exactly
\* when its statement met no error
C11_WriteErrorAbsorbed ==
    [][/\ last'.op \in {"store", "flush"}
       /\ last'.env.conn = "ok" /\ last'.env.end = "ok"
       => /\ last'.env.stmt \in PsycopgErrors =>
                 /\ last'.exc = "None"
                 /\ last'.ret = IF last'.op = "flush" THEN FALSE ELSE None
                 /\ table' = table
                 /\ last'.ev[Len(last'.ev)] = "close"
          /\ last'.op = "flush" /\ last'.exc = "None" =>
                 (last'.ret = TRUE <=> last'.env.stmt = "ok")]_vars

\* a flush of a row has met a constraint violation and returned False
C11_Witness ==
    /\ last.op = "flush" /\ last.env = [NoFault EXCEPT !.stmt = "IntegrityError"]
    /\ last.exc = "None" /\ last.ret = FALSE
    /\ last.before = 1

\* C12: with the JSON backend, a store of a byte string leaves one row of
\* its bank and key: the base64 text of the bytes with encoded set when they
\* are not UTF-8 (b"\xff" as "/w=="), their decoded text with encoded unset
\* when they are; and a fetch of bytes that are not UTF-8 returns those bytes
C12_JsonBytes ==
    /\ ~bytea /\ last.op = "store" /\ last.arg.t = "bytes" =>
           /\ Cardinality(Target) = 1
           /\ \A r \in Target :
                  /\ r.data.jt = "string"
                  /\ r.encoded = ~Utf8Valid(last.arg.v)
                  /\ r.data.v = IF Utf8Valid(last.arg.v)
                                THEN Utf8Points(last.arg.v)
                                ELSE b64encode(last.arg.v)
                  /\ last.arg.v = <<255>> => r.data.v = <<47, 119, 61, 61>>
    /\ ~bytea /\ last.op = "fetch" =>
           \A c \in cache :
               /\ c[1] = last.bank /\ c[2] = last.key
               /\ c[3].t = "bytes" /\ ~Utf8Valid(c[3].v)
               => last.exc = "None" /\ last.ret = c[3]

Writers(bank, key) ==
    {c \in Callers : /\ conns[c].pc = "executed"
                     /\ conns[c].bank = bank /\ conns[c].key = key}

\* C14: however the store calls of the callers interleave, no bank and key
\* ever has two rows or two open transactions that have written it, a row
\* once committed stays, and a store that has committed leaves the one row
\* of its bank and key with the payload of its value
C14_AtomicUpsert ==
    /\ \A r1, r2 \in table :
           r1.bank = r2.bank /\ r1.key = r2.key => r1 = r2
    /\ \A c \in Callers : Cardinality(Writers(conns[c].bank, conns[c].key)) <= 1
    /\ \A x \in cache : Cardinality(Addressed(table, x[1], x[2])) = 1
    /\ last.op = "store" =>
           /\ Cardinality(Target) = 1
           /\ \A r \in Target :
                  /\ r.data = Payload(last.arg).data
                  /\ r.encoded = Payload(last.arg).encoded

\* a store has committed over a row while the other caller, connected before
\* that commit, has yet to run its statement on the same bank and key
C14_Witness ==
    /\ last.op = "store" /\ last.before = 1
    /\ \E c \in Callers :
           /\ conns[c].pc = "cursor"
           /\ conns[c].bank = last.bank /\ conns[c].key = last.key
           /\ conns[c].data # last.arg

\* C15: with the bytea backend, no call but a flush changes the id of a
\* row, and id returns for the bank and key of a store that found a row what
\* it returned before that store
C15_RecordIdImmutable ==
    [][bytea /\ last'.op # "flush" =>
           /\ \A r \in table :
                  \E x \in table' :
                      x.bank = r.bank /\ x.key = r.key /\ x.id = r.id
           /\ last'.op = "store" /\ last'.before = 1 =>
                  do_id(table', last'.bank, last'.key, NoFault).ret
                      = do_id(table, last'.bank, last'.key, NoFault).ret]_vars

\* a store has overwritten the payload of a row that has an id
C15_Witness ==
    /\ bytea /\ last.op = "store" /\ Clean /\ last.before = 1
    /\ last.arg = Bytes(<<255>>)
    /\ do_id(table, last.bank, last.key, NoFault).ret # NilUUID

\* the value of option n in the mapping of the last call, d when it has none
Given(n, d) ==
    IF Option(variant, n) \in DOMAIN last.arg
    THEN last.arg[Option(variant, n)] ELSE d

\* C16: _get_options returns for host, user and table the value of the
\* option or else 127.0.0.1, None and salt_cache; for the port the number of
\* the option or else 5432; for password the password option, else passwd,
\* else None; for the database the dbname option, else database, else
\* salt_cache; and the mapping it was given is the same after the call
C16_Options ==
    last.op = "_get_options" =>
        /\ last.exc = "None"
        /\ last.ret.options.host = Given("host", <<"127.0.0.1">>)
        /\ last.ret.options.user = Given("user", None)
        /\ last.ret.options.table = Given("table_name", <<"salt_cache">>)
        /\ last.ret.options.port =
               IF Option(variant, "port") \notin DOMAIN last.arg THEN 5432
               ELSE IF Given("port", None).t = "int" THEN 5433 ELSE 6543
        /\ last.ret.options.password =
               Given("password", Given("passwd", None))
        /\ last.ret.options.dbname =
               Given("dbname", Given("database", <<"salt_cache">>))
        /\ last.ret.opts = last.arg

\* the options were resolved from a mapping that has passwd, password,
\* database and dbname, and the port as a str
C16_Witness ==
    /\ last.op = "_get_options"
    /\ {Option(variant, n) : n \in {"passwd", "password", "database",
                                    "dbname", "port"}} \subseteq DOMAIN last.arg
    /\ last.arg[Option(variant, "port")] = Str(<<54, 53, 52, 51>>)
    /\ last.ret.options.password = <<"the", "password">>
    /\ last.ret.options.dbname = <<"the", "dbname">>

\* how many times the step x was taken on the connection of the last call
Count(x) == Cardinality({i \in 1..Len(last.ev) : last.ev[i] = x})

\* the last step taken on the connection of the last call
LastStep == last.ev[Len(last.ev)]

\* C17: a scope that got its connection closes it once, as the last step on
\* it, whether its body returned, raised a database error, raised another
\* error, or its COMMIT or ROLLBACK failed; and a scope that got none has
\* none to close
C17_NoConnectionLeak ==
    last.op = "_get_serv" =>
        /\ Count("connect") = 1
        /\ last.env.conn = "ok" => Count("close") = 1 /\ LastStep = "close"
        /\ last.env.conn # "ok" => Count("close") = 0

\* a scope whose body raised a database error and whose ROLLBACK then
\* failed has closed its connection
C17_Witness ==
    /\ last.op = "_get_serv" /\ last.arg.body.exc = "DataError"
    /\ last.env.conn = "ok" /\ last.env.end # "ok"
    /\ LastStep = "close"

\* the statements that end the transaction of the last scope, and their
\* place before the close
ScopeEnds(commits, rollbacks) ==
    /\ Count("COMMIT") = commits /\ Count("ROLLBACK") = rollbacks
    /\ LastStep = "close"
    /\ last.ev[Len(last.ev) - 1] \in {"COMMIT", "ROLLBACK"}

\* C18: a body that did not raise is followed by one COMMIT under
\* commit=True and by one ROLLBACK otherwise; a body that raised a database
\* error is followed by one ROLLBACK and no COMMIT, and the caller is raised
\* that same error; the COMMIT or ROLLBACK comes before the close
C18_ScopeDiscipline ==
    last.op = "_get_serv" /\ last.env.conn = "ok" =>
        /\ last.arg.body.exc = "None" =>
               IF last.arg.commit THEN ScopeEnds(1, 0) ELSE ScopeEnds(0, 1)
        /\ last.arg.body.exc \in DatabaseErrors =>
               ScopeEnds(0, 1) /\ last.exc = last.arg.body.exc

\* C19: every call makes one connection attempt, first of all; one that got
\* its connection opens one cursor and issues one statement, and ends with
\* COMMIT, not ROLLBACK, when its body did not raise
C19_OneScopeOneStatement ==
    last.op \in Reads \cup {"store", "flush"} =>
        /\ Count("connect") = 1 /\ last.ev[1] = "connect"
        /\ last.env.conn = "ok" =>
               /\ Count("cursor") = 1 /\ Count("execute") = 1
               /\ Count("close") = 1
               /\ Count("COMMIT") + Count("ROLLBACK") <= 1
               /\ last.exc = "None" =>
                      Count("COMMIT") = 1 /\ Count("ROLLBACK") = 0

\* contains has found its row, with one statement and a COMMIT
C19_Witness ==
    /\ last.op = "contains" /\ last.exc = "None" /\ last.ret = TRUE
    /\ last.ev = <<"connect", "cursor", "execute", "COMMIT", "close">>

\* C20: whatever characters its bank and key hold, a store raises and logs
\* nothing and leaves one row whose bank and key are the strings it was
\* given, with its payload; no read raises; and contains returns True
\* exactly when a row has the bank and key it was given
C20_Parameterized ==
    /\ last.op = "store" =>
           /\ Clean
           /\ Cardinality(Target) = 1
           /\ \A r \in Target : r.data = Payload(last.arg).data
    /\ last.op \in Reads => last.exc = "None"
    /\ last.op = "contains" /\ last.exc = "None" =>
           last.ret = (Cardinality(Target) = 1)

\* the value is a byte string that is not valid UTF-8
NotUtf8Bytes(x) == x.t = "bytes" /\ ~to_str(x.v).ok

\* C21: with the JSON backend, a store that raised and logged no error leaves
\* the row of its bank and key with its payload and with the encoded flag
\* true exactly when its value is a byte string that is not valid UTF-8, and
\* leaves every other row as it was; a store that failed, a flush and a read
\* change no row they leave in the table; so that every row flagged as
\* encoded holds base64 text that decodes to such a byte string
C21_EncodedFlag ==
    /\ [][~bytea =>
             IF last'.op = "store" /\ last'.exc = "None" /\ last'.log = "None"
             THEN \A r \in table' :
                      IF r.bank = last'.bank /\ r.key = last'.key
                      THEN /\ r.encoded = NotUtf8Bytes(last'.arg)
                           /\ r.data = Payload(last'.arg).data
                      ELSE r \in table
             ELSE table' \subseteq table]_vars
    /\ [](~bytea =>
             \A r \in table :
                 r.encoded =>
                     /\ Decode_pgjsonb_encoded(r).ok
                     /\ NotUtf8Bytes(Decode_pgjsonb_encoded(r).val))

\* a store of the text "/w==" has found a row of its bank and key and left
\* it unflagged, while the row of the other key holds the same text flagged
\* as the base64 of b"\xff"
C21_Witness ==
    /\ ~bytea /\ last.op = "store" /\ Clean /\ last.before = 1
    /\ last.arg = Str(<<47, 119, 61, 61>>)
    /\ \A r \in Target : ~r.encoded
    /\ \E r \in table, o \in Target :
           r.key # last.key /\ r.encoded /\ r.data = o.data

\* C22: with the JSON backend, a store that raised and logged no error, that
\* found a row of its bank and key written before the clock last advanced,
\* and that changes what fetch returns for them, makes updated return a
\* later time than it returned before
C22_JsonUpdated ==
    [][/\ ~bytea
       /\ last'.op = "store" /\ last'.exc = "None" /\ last'.log = "None"
       /\ Addressed(table, last'.bank, last'.key) # {}
       /\ \A r \in Addressed(table, last'.bank, last'.key) : r.changed < now
       /\ do_fetch(bytea, table', last'.bank, last'.key, NoFault).ret
              # do_fetch(bytea, table, last'.bank, last'.key, NoFault).ret
       => do_updated(table', last'.bank, last'.key, NoFault).ret
              > do_updated(table, last'.bank, last'.key, NoFault).ret]_vars

============================================================================
